---- MODULE Spec2Model ----
(***************************************************************************)
(* A model of npm-publish-action (src/index.js): one run of the action.    *)
(*                                                                         *)
(* Strings are sequences of tokens (Str): "v%s" is <<"v", "%s">>, so that  *)
(* String.includes("%s"), String.replace(/%s/g, v), template literals and  *)
(* the commit regular expression are computed as the code computes them.   *)
(* The empty string and undefined are both falsy in every place the code   *)
(* tests them, and both are the empty sequence here.                       *)
(***************************************************************************)
EXTENDS Integers, Sequences, FiniteSets, TLC

\* The longest commit list of an event payload.
MaxCommits == 2

\* process.exitCode values set by the top-level catch.
NeutralExitCode == 78
FailureExitCode == 1

Empty == << >>
Truthy(s) == s # Empty
Or(a, b) == IF Truthy(a) THEN a ELSE b

-----------------------------------------------------------------------------
(* Errors and promise results *)

None == [kind |-> "none"]
NeutralExitError == [kind |-> "NeutralExitError"]
Error == [kind |-> "Error"]
ExitError(code) == [kind |-> "ExitError", code |-> code]

\* Exit codes a child process may report.
ExitCodes == {0, 1, 128}
\* How a spawned child ends: the "exit" event with a code, or the "error" event.
Outcomes == [type : {"exit"}, code : ExitCodes] \cup {[type |-> "error", code |-> -1]}

-----------------------------------------------------------------------------
(* Inputs: the process environment and the two JSON files *)

EnvNames == {"DEFAULT_BRANCH", "COMMIT_PATTERN", "TAG_NAME", "TAG_MESSAGE",
             "COMMIT_USER", "COMMIT_EMAIL", "PUBLISH_WITH"}
InputAlias(name) == "INPUT_" \o name
AllEnvNames == EnvNames \cup {InputAlias(n) : n \in EnvNames}

DefaultCommitPattern == <<"^(?:Release|Version) (\\S+)">>
ReadmeCommitPattern == <<"^Release (\\S+)">>
DefaultTemplate == <<"v", "%s">>

GoodTemplate == <<"release-", "%s", "-", "%s">>
BadTemplate == <<"release">>

MasterRef == <<"refs/heads/", "master">>
MainRef == <<"refs/heads/", "main">>
PullRef == <<"refs/pull/", "1", "/merge">>
Refs == {MasterRef, MainRef, PullRef}

Messages == {<<"Release", " ", "1.2.3">>, <<"fix", " ", "bug">>,
             <<"Release", " ", "1.9.9">>}
Commits == [message : Messages]
CommitLists == UNION {[1..n -> Commits] : n \in 0..MaxCommits}

OwnerName == <<"octocat">>
OwnerEmail == <<"octocat@example.com">>

ManifestVersion == <<"1.2.3">>

\* The environments a run may start in: each option is unset or set, through
\* the variable itself or through its INPUT_ alias.
Environments ==
  {[n \in AllEnvNames |->
      CASE n = "DEFAULT_BRANCH" -> db
        [] n = "TAG_NAME" -> tn
        [] n = "INPUT_TAG_NAME" -> itn
        [] n = "TAG_MESSAGE" -> tm
        [] n = "PUBLISH_WITH" -> pw
        [] OTHER -> Empty] :
     db \in {Empty, <<"main">>},
     tn \in {Empty, GoodTemplate},
     itn \in {Empty, BadTemplate},
     tm \in {Empty, BadTemplate},
     pw \in {Empty, <<"npm">>, <<"skip">>, <<"pnpm">>}}

\* The event file: absent, not JSON, or a payload.
EventFiles ==
  {[kind |-> k, ref |-> Empty, hasOwner |-> FALSE, commits |-> << >>] :
     k \in {"missing", "unparseable"}}
  \cup [kind : {"json"}, ref : Refs, hasOwner : BOOLEAN, commits : CommitLists]

\* package.json: absent, not JSON, the JSON value null, an object without a
\* version, or an object with one.
PackageFiles ==
  {[kind |-> k, version |-> Empty] :
     k \in {"missing", "unparseable", "null", "noVersion"}}
  \cup {[kind |-> "object", version |-> ManifestVersion]}

-----------------------------------------------------------------------------
VARIABLES
  env,          \* process.env
  eventFile,    \* content of the file at GITHUB_EVENT_PATH
  packageFile,  \* content of package.json in the workspace
  pc,           \* position of the run
  eventObj,     \* main: the parsed event
  config,       \* main: the configuration object
  packageObj,   \* processDirectory: the parsed manifest
  decision,     \* processDirectory: what checkCommit returned
  tagName,      \* createTag: rendered tag name
  tagMessage,   \* createTag: rendered tag message
  proc,         \* the child process in flight
  launched,     \* every command spawned so far, in order
  exits,        \* how each finished child ended, in order
  caught,       \* the error caught around createTag
  error,        \* the rejection of main()
  exitCode,     \* process.exitCode (0 while unset)
  trace         \* the calls made so far, in order

vars == <<env, eventFile, packageFile, pc, eventObj, config, packageObj,
          decision, tagName, tagMessage, proc, launched, exits, caught,
          error, exitCode, trace>>

inputs == <<env, eventFile, packageFile>>

NoConfig == [set |-> FALSE]
NoObj == [kind |-> "unset"]
NoProc == [command |-> "none", args |-> << >>]

Init ==
  /\ env \in Environments
  /\ eventFile \in EventFiles
  /\ packageFile \in PackageFiles
  /\ pc = "main"
  /\ eventObj = NoObj
  /\ config = NoConfig
  /\ packageObj = NoObj
  /\ decision = "none"
  /\ tagName = Empty
  /\ tagMessage = Empty
  /\ proc = NoProc
  /\ launched = << >>
  /\ exits = << >>
  /\ caught = None
  /\ error = None
  /\ exitCode = 0
  /\ trace = << >>

-----------------------------------------------------------------------------
(* Pure functions *)

getEnv(name) == Or(env[name], env[InputAlias(name)])

Includes(str, token) == \E i \in 1..Len(str) : str[i] = token

\* placeholderEnv without the placeholder check.
placeholderEnvThrows_NoCheck(name) == FALSE

\* placeholderEnv throws when the variable is set and lacks the placeholder.
placeholderEnvThrows(name) ==
  LET str == getEnv(name) IN Truthy(str) /\ ~Includes(str, "%s")

placeholderEnv(name, defaultValue) ==
  LET str == getEnv(name) IN IF ~Truthy(str) THEN defaultValue ELSE str

\* template.replace(/%s/g, version)
RECURSIVE ReplaceAll(_, _)
ReplaceAll(template, version) ==
  IF template = << >> THEN << >>
  ELSE (IF Head(template) = "%s" THEN version ELSE <<Head(template)>>)
       \o ReplaceAll(Tail(template), version)

\* The alternatives a commit pattern accepts before the space.
Prefixes(pattern) ==
  IF pattern = DefaultCommitPattern THEN {"Release", "Version"}
  ELSE IF pattern = ReadmeCommitPattern THEN {"Release"}
  ELSE {}

\* (\S+): the longest run of non-space tokens at the head of s.
RECURSIVE NonSpaceRun(_)
NonSpaceRun(s) ==
  IF s = << >> \/ Head(s) = " " THEN << >>
  ELSE <<Head(s)>> \o NonSpaceRun(Tail(s))

\* message.match(pattern): whether it matched, and match[1].
Match(message, pattern) ==
  IF /\ Len(message) >= 3
     /\ message[1] \in Prefixes(pattern)
     /\ message[2] = " "
     /\ message[3] # " "
  THEN [matched |-> TRUE, group |-> NonSpaceRun(SubSeq(message, 3, Len(message)))]
  ELSE [matched |-> FALSE, group |-> Empty]

\* The scan going through every commit before it answers.
ScanFrom_NoStop(cfg, commits, version, i) ==
  [result |-> \E j \in i..Len(commits) :
                LET match == Match(commits[j].message, cfg.commitPattern) IN
                match.matched /\ match.group = version,
   examined |-> Len(commits)]

\* checkCommit's loop from commit i on: what it returns, and the index of
\* the last commit it looked at.
RECURSIVE ScanFrom(_, _, _, _)
ScanFrom(cfg, commits, version, i) ==
  IF i > Len(commits) THEN [result |-> FALSE, examined |-> Len(commits)]
  ELSE LET match == Match(commits[i].message, cfg.commitPattern) IN
       IF match.matched /\ match.group = version
       THEN [result |-> TRUE, examined |-> i]
       ELSE ScanFrom(cfg, commits, version, i + 1)

checkCommit(cfg, commits, version) == ScanFrom(cfg, commits, version, 1)

\* What run()'s promise settles to for a child that ended with outcome o.
Settle(o) ==
  IF o.type = "error" THEN Error
  ELSE IF o.code = 0 THEN None
  ELSE ExitError(o.code)

-----------------------------------------------------------------------------
(* Commands *)

Git(args) == [command |-> "git", args |-> args]
RevParseCmd(tag) ==
  Git(<<<<"rev-parse">>, <<"-q">>, <<"--verify">>, <<"refs/tags/">> \o tag>>)
ConfigNameCmd(name) == Git(<<<<"config">>, <<"user.name">>, name>>)
ConfigEmailCmd(email) == Git(<<<<"config">>, <<"user.email">>, email>>)
TagCmd(msg, tag) == Git(<<<<"tag">>, <<"-a">>, <<"-m">>, msg, tag>>)
PushCmd(tag) == Git(<<<<"push">>, <<"origin">>, <<"refs/tags/">> \o tag>>)
YarnPublishCmd(version) ==
  [command |-> "yarn",
   args |-> <<<<"publish">>, <<"--non-interactive">>, <<"--new-version">>, version>>]
NpmPublishCmd ==
  [command |-> "npm", args |-> <<<<"publish">>, <<"--access">>, <<"public">>>>]

\* run(): spawn the child.
run(cmd) ==
  /\ proc' = cmd
  /\ launched' = Append(launched, cmd)

\* The child in flight ends with outcome o.
ChildEnds(o) ==
  /\ proc # NoProc
  /\ proc' = NoProc
  /\ exits' = Append(exits, o)

\* main() rejects with e.
Reject(e) ==
  /\ error' = e
  /\ pc' = "rejected"

-----------------------------------------------------------------------------
(* The run *)

\* main, up to the event file being read and parsed.
ReadEvent ==
  /\ pc = "main"
  /\ trace' = Append(trace, "readJson:event")
  /\ IF eventFile.kind = "json"
     THEN /\ eventObj' = eventFile
          /\ pc' = "gate"
          /\ error' = error
     ELSE /\ Reject(Error)
          /\ eventObj' = eventObj
  /\ UNCHANGED <<inputs, config, packageObj, decision, tagName, tagMessage,
                 proc, launched, exits, caught, exitCode>>

\* The default-branch check left out.
BranchGate_NoCheck ==
  /\ pc = "gate"
  /\ pc' = "config"
  /\ UNCHANGED <<inputs, eventObj, config, packageObj, decision, tagName,
                 tagMessage, proc, launched, exits, caught, error, exitCode, trace>>

\* main: the default-branch check.
BranchGate ==
  /\ pc = "gate"
  /\ LET defaultBranch == Or(getEnv("DEFAULT_BRANCH"), <<"master">>) IN
     IF eventObj.ref # <<"refs/heads/">> \o defaultBranch
     THEN Reject(NeutralExitError)
     ELSE /\ pc' = "config"
          /\ error' = error
  /\ UNCHANGED <<inputs, eventObj, config, packageObj, decision, tagName,
                 tagMessage, proc, launched, exits, caught, exitCode, trace>>

\* main: the configuration object.
BuildConfig ==
  /\ pc = "config"
  /\ IF ~eventObj.hasOwner
     THEN /\ Reject(Error)
          /\ UNCHANGED <<config, trace>>
     ELSE IF placeholderEnvThrows("TAG_NAME")
     THEN /\ Reject(Error)
          /\ trace' = Append(trace, "placeholderEnv:TAG_NAME")
          /\ config' = config
     ELSE IF placeholderEnvThrows("TAG_MESSAGE")
     THEN /\ Reject(Error)
          /\ trace' = trace \o <<"placeholderEnv:TAG_NAME", "placeholderEnv:TAG_MESSAGE">>
          /\ config' = config
     ELSE /\ config' =
               [set |-> TRUE,
                commitPattern |-> Or(getEnv("COMMIT_PATTERN"), DefaultCommitPattern),
                tagName |-> placeholderEnv("TAG_NAME", DefaultTemplate),
                tagMessage |-> placeholderEnv("TAG_MESSAGE", DefaultTemplate),
                tagAuthor |-> [name |-> Or(getEnv("COMMIT_USER"), OwnerName),
                               email |-> Or(getEnv("COMMIT_EMAIL"), OwnerEmail)],
                publishWith |-> Or(getEnv("PUBLISH_WITH"), <<"yarn">>)]
          /\ trace' = trace \o <<"placeholderEnv:TAG_NAME", "placeholderEnv:TAG_MESSAGE">>
          /\ pc' = "processDirectory"
          /\ error' = error
  /\ UNCHANGED <<inputs, eventObj, packageObj, decision, tagName, tagMessage,
                 proc, launched, exits, caught, exitCode>>

\* The manifest read with its failure passed on as it is, not as a neutral exit.
ReadPackage_Fatal ==
  /\ pc = "processDirectory"
  /\ trace' = Append(trace, "readJson:package")
  /\ IF packageFile.kind \in {"missing", "unparseable"}
     THEN /\ Reject(Error)
          /\ packageObj' = packageObj
     ELSE /\ packageObj' = packageFile
          /\ pc' = "checkVersion"
          /\ error' = error
  /\ UNCHANGED <<inputs, eventObj, config, decision, tagName, tagMessage,
                 proc, launched, exits, caught, exitCode>>

\* processDirectory: the manifest is read and parsed.
ReadPackage ==
  /\ pc = "processDirectory"
  /\ trace' = Append(trace, "readJson:package")
  /\ IF packageFile.kind \in {"missing", "unparseable"}
     THEN /\ Reject(NeutralExitError)
          /\ packageObj' = packageObj
     ELSE /\ packageObj' = packageFile
          /\ pc' = "checkVersion"
          /\ error' = error
  /\ UNCHANGED <<inputs, eventObj, config, decision, tagName, tagMessage,
                 proc, launched, exits, caught, exitCode>>

\* The version check testing the manifest object only, not its version field.
CheckVersion_ObjectOnly ==
  /\ pc = "checkVersion"
  /\ IF packageObj.kind = "null"
     THEN Reject(Error)
     ELSE /\ pc' = "checkCommit"
          /\ error' = error
  /\ UNCHANGED <<inputs, eventObj, config, packageObj, decision, tagName,
                 tagMessage, proc, launched, exits, caught, exitCode, trace>>

\* processDirectory: the version field must be there.
CheckVersion ==
  /\ pc = "checkVersion"
  /\ IF packageObj.kind # "object"
     THEN Reject(Error)
     ELSE /\ pc' = "checkCommit"
          /\ error' = error
  /\ UNCHANGED <<inputs, eventObj, config, packageObj, decision, tagName,
                 tagMessage, proc, launched, exits, caught, exitCode, trace>>

\* The commit scan ending the run with a neutral exit when nothing matches.
CheckCommit_NeutralOnNoMatch ==
  /\ pc = "checkCommit"
  /\ LET scan == checkCommit(config, eventObj.commits, packageObj.version) IN
     /\ trace' = Append(trace, "checkCommit")
     /\ decision' = IF scan.result THEN "release" ELSE "noRelease"
     /\ IF scan.result
        THEN /\ pc' = "createTag"
             /\ error' = error
        ELSE Reject(NeutralExitError)
  /\ UNCHANGED <<inputs, eventObj, config, packageObj, tagName, tagMessage,
                 proc, launched, exits, caught, exitCode>>

\* processDirectory: the commit scan and the two branches it selects.
CheckCommit ==
  /\ pc = "checkCommit"
  /\ LET scan == checkCommit(config, eventObj.commits, packageObj.version) IN
     /\ trace' = Append(trace, "checkCommit")
     /\ decision' = IF scan.result THEN "release" ELSE "noRelease"
     /\ pc' = IF scan.result THEN "createTag" ELSE "resolved"
  /\ UNCHANGED <<inputs, eventObj, config, packageObj, tagName, tagMessage,
                 proc, launched, exits, caught, error, exitCode>>

\* The variables no step of the tagging and publishing phase changes.
fixed == <<inputs, eventObj, config, packageObj, decision, exitCode>>

\* createTag refusing to start for a strategy publishPackage does not know.
CreateTag_StrategyChecked ==
  /\ pc = "createTag"
  /\ IF config.publishWith \in {<<"yarn">>, <<"npm">>}
     THEN /\ tagName' = ReplaceAll(config.tagName, packageObj.version)
          /\ tagMessage' = ReplaceAll(config.tagMessage, packageObj.version)
          /\ run(RevParseCmd(tagName'))
          /\ trace' = Append(trace, "createTag")
          /\ pc' = "revParse"
          /\ error' = error
     ELSE /\ Reject(Error)
          /\ UNCHANGED <<tagName, tagMessage, proc, launched, trace>>
  /\ UNCHANGED <<fixed, exits, caught>>

\* createTag, up to the tag existence check being spawned.
CreateTag ==
  /\ pc = "createTag"
  /\ tagName' = ReplaceAll(config.tagName, packageObj.version)
  /\ tagMessage' = ReplaceAll(config.tagMessage, packageObj.version)
  /\ run(RevParseCmd(tagName'))
  /\ trace' = Append(trace, "createTag")
  /\ pc' = "revParse"
  /\ UNCHANGED <<fixed, exits, caught, error>>

\* The existence check with its result dropped: the tag is never taken to exist.
TagExists_Ignored(r) ==
  IF r = None \/ (r.kind = "ExitError" /\ r.code = 1)
  THEN [threw |-> FALSE, value |-> FALSE, error |-> None]
  ELSE [threw |-> TRUE, value |-> FALSE, error |-> r]

\* What the awaited existence check gives createTag: true, false, or a throw.
TagExists(r) ==
  IF r = None THEN [threw |-> FALSE, value |-> TRUE, error |-> None]
  ELSE IF r.kind = "ExitError" /\ r.code = 1
  THEN [threw |-> FALSE, value |-> FALSE, error |-> None]
  ELSE [threw |-> TRUE, value |-> FALSE, error |-> r]

\* createTag: the existence check has ended.
RevParseExit ==
  /\ pc = "revParse"
  /\ \E o \in Outcomes :
       /\ ChildEnds(o)
       /\ LET tagExists == TagExists(Settle(o)) IN
          IF tagExists.threw
          THEN /\ caught' = tagExists.error
               /\ pc' = "catch"
          ELSE IF tagExists.value
          THEN /\ caught' = NeutralExitError
               /\ pc' = "catch"
          ELSE /\ caught' = caught
               /\ pc' = "configName"
  /\ UNCHANGED <<fixed, tagName, tagMessage, launched, error, trace>>

\* A tagging command is spawned.
Launch(at, cmd, next) ==
  /\ pc = at
  /\ run(cmd)
  /\ pc' = next
  /\ UNCHANGED <<fixed, tagName, tagMessage, exits, caught, error, trace>>

\* A tagging command not awaited: createTag goes on while the child runs.
Awaited_NotAwaited(at, next) ==
  /\ pc = at
  /\ pc' = next
  /\ UNCHANGED <<fixed, tagName, tagMessage, proc, launched, exits, caught,
                 error, trace>>

\* A tagging command awaited with its failure dropped.
Awaited_FailureDropped(at, next) ==
  /\ pc = at
  /\ \E o \in Outcomes : ChildEnds(o)
  /\ pc' = next
  /\ UNCHANGED <<fixed, tagName, tagMessage, launched, caught, error, trace>>

\* An awaited tagging command has ended: createTag goes on, or throws.
Awaited(at, next) ==
  /\ pc = at
  /\ \E o \in Outcomes :
       /\ ChildEnds(o)
       /\ IF Settle(o) = None
          THEN /\ pc' = next
               /\ caught' = caught
          ELSE /\ pc' = "catch"
               /\ caught' = Settle(o)
  /\ UNCHANGED <<fixed, tagName, tagMessage, launched, error, trace>>

GitConfigName ==
  Launch("configName", ConfigNameCmd(config.tagAuthor.name), "awaitConfigName")
GitConfigNameExit == Awaited("awaitConfigName", "configEmail")
GitConfigEmail ==
  Launch("configEmail", ConfigEmailCmd(config.tagAuthor.email), "awaitConfigEmail")
GitConfigEmailExit == Awaited("awaitConfigEmail", "tag")
GitTag == Launch("tag", TagCmd(tagMessage, tagName), "awaitTag")
GitTagExit == Awaited("awaitTag", "push")
GitPush == Launch("push", PushCmd(tagName), "awaitPush")
GitPushExit == Awaited("awaitPush", "tagCreated")

\* processDirectory: createTag returned.
TagCreated ==
  /\ pc = "tagCreated"
  /\ trace' = Append(trace, "log:Tag created.")
  /\ pc' = "publishPackage"
  /\ UNCHANGED <<fixed, tagName, tagMessage, proc, launched, exits, caught, error>>

\* The catch around createTag trying createTag again.
CatchCreateTag_Retry ==
  /\ pc = "catch"
  /\ trace' = Append(trace, "log:Failed to create the tag")
  /\ pc' = "createTag"
  /\ UNCHANGED <<fixed, tagName, tagMessage, proc, launched, exits, caught, error>>

\* createTag called without the try/catch: its error rejects main().
CatchCreateTag_Rethrow ==
  /\ pc = "catch"
  /\ Reject(caught)
  /\ UNCHANGED <<fixed, tagName, tagMessage, proc, launched, exits, caught, trace>>

\* processDirectory: the catch around createTag.
CatchCreateTag ==
  /\ pc = "catch"
  /\ trace' = Append(trace, "log:Failed to create the tag")
  /\ pc' = "publishPackage"
  /\ UNCHANGED <<fixed, tagName, tagMessage, proc, launched, exits, caught, error>>

\* publishPackage falling back to npm for any strategy that is not yarn.
PublishCmd_NpmFallback(publishWith, version) ==
  IF publishWith = <<"yarn">> THEN YarnPublishCmd(version) ELSE NpmPublishCmd

\* The command publishPackage runs for a strategy; NoProc where it throws.
PublishCmd(publishWith, version) ==
  IF publishWith = <<"yarn">> THEN YarnPublishCmd(version)
  ELSE IF publishWith = <<"npm">> THEN NpmPublishCmd
  ELSE NoProc

\* publishPackage, up to the publish command being spawned.
PublishPackage ==
  /\ pc = "publishPackage"
  /\ trace' = Append(trace, "publishPackage")
  /\ LET cmd == PublishCmd(config.publishWith, packageObj.version) IN
     IF cmd # NoProc
     THEN /\ run(cmd)
          /\ pc' = "publish"
          /\ error' = error
     ELSE /\ Reject(Error)
          /\ UNCHANGED <<proc, launched>>
  /\ UNCHANGED <<fixed, tagName, tagMessage, exits, caught>>

\* publishPackage resolving however the publish command ended.
PublishExit_FailureDropped ==
  /\ pc = "publish"
  /\ \E o \in Outcomes : ChildEnds(o)
  /\ pc' = "resolved"
  /\ UNCHANGED <<fixed, tagName, tagMessage, launched, caught, error, trace>>

\* publishPackage: the publish command has ended.
PublishExit ==
  /\ pc = "publish"
  /\ \E o \in Outcomes :
       /\ ChildEnds(o)
       /\ IF Settle(o) = None
          THEN /\ pc' = "resolved"
               /\ error' = error
          ELSE Reject(Settle(o))
  /\ UNCHANGED <<fixed, tagName, tagMessage, launched, caught, trace>>

\* The top-level catch passing a child's exit code on as the process's.
ExitCodeFor_ChildCode(e) ==
  IF e.kind = "NeutralExitError" THEN NeutralExitCode
  ELSE IF e.kind = "ExitError" THEN e.code
  ELSE FailureExitCode

\* The exit code the top-level catch sets for a rejection.
ExitCodeFor(e) ==
  IF e.kind = "NeutralExitError" THEN NeutralExitCode ELSE FailureExitCode

\* main().catch
MainCatch ==
  /\ pc = "rejected"
  /\ exitCode' = ExitCodeFor(error)
  /\ pc' = "done"
  /\ UNCHANGED <<inputs, eventObj, config, packageObj, decision, tagName,
                 tagMessage, proc, launched, exits, caught, error, trace>>

\* main() resolved: process.exitCode is left unset.
MainResolved ==
  /\ pc = "resolved"
  /\ pc' = "done"
  /\ UNCHANGED <<inputs, eventObj, config, packageObj, decision, tagName,
                 tagMessage, proc, launched, exits, caught, error, exitCode, trace>>

Next ==
  \/ ReadEvent
  \/ BranchGate
  \/ BuildConfig
  \/ ReadPackage
  \/ CheckVersion
  \/ CheckCommit
  \/ CreateTag
  \/ RevParseExit
  \/ GitConfigName
  \/ GitConfigNameExit
  \/ GitConfigEmail
  \/ GitConfigEmailExit
  \/ GitTag
  \/ GitTagExit
  \/ GitPush
  \/ GitPushExit
  \/ TagCreated
  \/ CatchCreateTag
  \/ PublishPackage
  \/ PublishExit
  \/ MainCatch
  \/ MainResolved

Spec == Init /\ [][Next]_vars

-----------------------------------------------------------------------------
(* checkCommit over commit messages, patterns and versions of every shape *)

VersionWithV == <<"v", "1.2.3">>
ScanVersions == {ManifestVersion, VersionWithV}
ScanMessages ==
  Messages \cup {<<"Version", " ", "1.2.3">>,
                 <<"Release", " ", "v", "1.2.3">>,
                 <<"Release", " ", "1.2.3", " ", "now">>}
ScanCommitLists == UNION {[1..n -> [message : ScanMessages]] : n \in 0..MaxCommits}

\* Runs on the default branch with a well-formed event and manifest, the
\* commit pattern left to its default or set to the README's.
InitScan ==
  /\ env \in {[n \in AllEnvNames |-> IF n = "COMMIT_PATTERN" THEN cp ELSE Empty] :
                cp \in {Empty, ReadmeCommitPattern}}
  /\ eventFile \in [kind : {"json"}, ref : {MasterRef}, hasOwner : {TRUE},
                    commits : ScanCommitLists]
  /\ packageFile \in [kind : {"object"}, version : ScanVersions]
  /\ pc = "main"
  /\ eventObj = NoObj
  /\ config = NoConfig
  /\ packageObj = NoObj
  /\ decision = "none"
  /\ tagName = Empty
  /\ tagMessage = Empty
  /\ proc = NoProc
  /\ launched = << >>
  /\ exits = << >>
  /\ caught = None
  /\ error = None
  /\ exitCode = 0
  /\ trace = << >>

SpecScan == InitScan /\ [][Next]_vars

-----------------------------------------------------------------------------
(* Observations used by the properties *)

Contains(seq, x) == \E i \in 1..Len(seq) : seq[i] = x

Done == pc = "done"
\* main() has settled: nothing more of the run is executed.
Ended == pc \in {"resolved", "rejected", "done"}

IsPublishCmd(c) == c.command \in {"yarn", "npm"}
IsTaggingCmd(c) ==
  c.command = "git" /\ c.args[1] \in {<<"config">>, <<"tag">>, <<"push">>}
PublishLaunched == \E i \in 1..Len(launched) : IsPublishCmd(launched[i])
\* The publish command, always the last one spawned, has ended.
PublishEnded == PublishLaunched /\ Len(exits) = Len(launched)
PublishSucceeded == PublishEnded /\ Settle(exits[Len(exits)]) = None
PublishFailed == PublishEnded /\ Settle(exits[Len(exits)]) # None

ExitZero == [type |-> "exit", code |-> 0]
\* The strategy is one publishPackage has a command for.
HasPublishCmd == config.set /\ config.publishWith \in {<<"yarn">>, <<"npm">>}

\* The inputs pass the branch gate.
RefIsDefaultBranch ==
  /\ eventFile.kind = "json"
  /\ eventFile.ref = <<"refs/heads/">> \o Or(getEnv("DEFAULT_BRANCH"), <<"master">>)
\* A template variable is provided and lacks the placeholder.
BadTemplateProvided ==
  placeholderEnvThrows("TAG_NAME") \/ placeholderEnvThrows("TAG_MESSAGE")
\* No commit of the event yields a capture equal to the manifest version.
NoCommitMatches ==
  \A i \in 1..Len(eventFile.commits) :
    LET match == Match(eventFile.commits[i].message,
                       Or(getEnv("COMMIT_PATTERN"), DefaultCommitPattern))
    IN ~(match.matched /\ match.group = packageFile.version)
EventReadFailed ==
  Contains(trace, "readJson:event") /\ eventFile.kind \in {"missing", "unparseable"}
PackageReadFailed ==
  Contains(trace, "readJson:package") /\ packageFile.kind \in {"missing", "unparseable"}

-----------------------------------------------------------------------------
(* C1 *)

\* createTag threw something other than the neutral "tag exists" error.
TaggingFailed == caught.kind \in {"Error", "ExitError"}

\* C1: once a commit has matched, a failure of the tagging phase (a launch
\* failure or non-zero exit of git config, git tag or git push, or a git
\* rev-parse failure other than exit code 1) is caught and does not end the
\* run: publishPackage is still called, the publish command of the strategy is
\* still spawned, and if it exits 0 the process exit code is 0.
C1_TaggingFailureIsSwallowed ==
  TaggingFailed =>
    /\ decision = "release"
    /\ (Ended => Contains(trace, "publishPackage"))
    /\ (Ended /\ HasPublishCmd => PublishLaunched)
    /\ (Done /\ PublishSucceeded => exitCode = 0)

\* git push exited 128, yarn or npm publish was spawned and exited 0, exit code 0.
C1_Witness ==
  /\ Done
  /\ TaggingFailed
  /\ Len(launched) = 6
  /\ launched[5].args[1] = <<"push">>
  /\ exits[5] = [type |-> "exit", code |-> 128]
  /\ PublishSucceeded
  /\ exitCode = 0

-----------------------------------------------------------------------------
(* C2 *)

\* The tag existence check exited 0.
TagAlreadyExists == Len(exits) >= 1 /\ exits[1] = ExitZero

\* C2: if git rev-parse exits 0, no git config, git tag or git push is ever
\* spawned in that run, publishing still takes place, and the exit code is
\* decided by publishing alone: 0 if the publish command exited 0, otherwise 1,
\* never the 78 of the NeutralExitError thrown in createTag.
C2_ExistingTagSkipsTagging ==
  TagAlreadyExists =>
    /\ launched[1].args[1] = <<"rev-parse">>
    /\ \A i \in 1..Len(launched) : ~IsTaggingCmd(launched[i])
    /\ (Ended => Contains(trace, "publishPackage"))
    /\ (Ended /\ HasPublishCmd => PublishLaunched)
    /\ (Done => exitCode = IF PublishSucceeded THEN 0 ELSE FailureExitCode)

\* The tag existed, only rev-parse and the publish command ran, exit code 0.
C2_Witness ==
  /\ Done
  /\ TagAlreadyExists
  /\ caught = NeutralExitError
  /\ Len(launched) = 2
  /\ IsPublishCmd(launched[2])
  /\ exitCode = 0

-----------------------------------------------------------------------------
(* C3 *)

\* C3: if the publish command fails to launch or exits with a non-zero code,
\* main() rejects and the process exit code is 1, whatever happened in the
\* tagging phase.
C3_PublishFailureIsFatal ==
  PublishFailed =>
    /\ pc \in {"rejected", "done"}
    /\ error = Settle(exits[Len(exits)])
    /\ (Done => exitCode = 1)

\* The tag was created and pushed, the publish command exited 128, exit code 1.
C3_Witness ==
  /\ Done
  /\ Contains(trace, "log:Tag created.")
  /\ PublishFailed
  /\ exits[Len(exits)] = [type |-> "exit", code |-> 128]
  /\ exitCode = 1

-----------------------------------------------------------------------------
(* C4 *)

\* C4 as stated, for a payload of the documented shape: if the event ref is
\* the default branch, the manifest has a version and no commit matches it,
\* the run ends with exit code 0 and no subprocess.
C4_Original ==
  (/\ Done
   /\ RefIsDefaultBranch
   /\ eventFile.hasOwner
   /\ packageFile.kind = "object"
   /\ NoCommitMatches)
  => (exitCode = 0 /\ launched = << >>)

\* C4, amended: if moreover TAG_NAME and TAG_MESSAGE are each unset or hold
\* the placeholder, the commit scan runs, finds nothing, and the run ends with
\* exit code 0 and no subprocess.
C4_NoMatchExitsCleanly ==
  (/\ Done
   /\ RefIsDefaultBranch
   /\ eventFile.hasOwner
   /\ ~BadTemplateProvided
   /\ packageFile.kind = "object"
   /\ NoCommitMatches)
  => (/\ decision = "noRelease"
      /\ exitCode = 0
      /\ launched = << >>)

\* Commits "fix bug", "Release 1.9.9" against version 1.2.3: exit 0, nothing spawned.
C4_Witness ==
  /\ Done
  /\ RefIsDefaultBranch
  /\ eventFile.commits = <<[message |-> <<"fix", " ", "bug">>],
                           [message |-> <<"Release", " ", "1.9.9">>]>>
  /\ packageFile.kind = "object"
  /\ decision = "noRelease"
  /\ exitCode = 0
  /\ launched = << >>

-----------------------------------------------------------------------------
(* C5 *)

RefIsOtherBranch == eventFile.kind = "json" /\ ~RefIsDefaultBranch

-----------------------------------------------------------------------------
(* C6 *)

\* C6: with PUBLISH_WITH "skip" and a matching commit the run only tags: no
\* publish command is spawned and the run does not fail with exit code 1.
C6_SkipOnlyTags ==
  (Done /\ config.set /\ config.publishWith = <<"skip">> /\ decision = "release")
  => (~PublishLaunched /\ exitCode # FailureExitCode)

-----------------------------------------------------------------------------
(* C7 *)

\* The strategy is none of the values the specification names.
UnrecognizedStrategy ==
  config.set /\ config.publishWith \notin {<<"yarn">>, <<"npm">>, <<"skip">>}

\* C7: with an unrecognized PUBLISH_WITH and a matching commit, no publish
\* command is ever spawned, main() never resolves, and the exit code is 1.
C7_UnrecognizedStrategyFails ==
  (UnrecognizedStrategy /\ decision = "release") =>
    /\ ~PublishLaunched
    /\ pc # "resolved"
    /\ (Contains(trace, "publishPackage") => pc \in {"rejected", "done"} /\ error = Error)
    /\ (Done => exitCode = 1)

\* PUBLISH_WITH=pnpm with a matching commit: publishPackage threw, exit 1.
C7_Witness ==
  /\ Done
  /\ config.set
  /\ config.publishWith = <<"pnpm">>
  /\ decision = "release"
  /\ Contains(trace, "publishPackage")
  /\ ~PublishLaunched
  /\ exitCode = 1

-----------------------------------------------------------------------------
(* C8 *)

-----------------------------------------------------------------------------
(* C9 *)

\* C9 as stated: an event file or a manifest that cannot be read or parsed
\* ends the run with exit code 1 and no subprocess.
C9_Original ==
  (Done /\ (EventReadFailed \/ PackageReadFailed))
  => (exitCode = 1 /\ launched = << >>)

\* C9, amended: an event file that cannot be read or parsed ends the run with
\* exit code 1; a manifest that cannot be read or parsed ends it with the
\* neutral exit code 78; in both cases no subprocess is spawned.
C9_UnreadableFilesEndTheRun ==
  /\ EventReadFailed => launched = << >> /\ (Done => exitCode = 1)
  /\ PackageReadFailed => launched = << >> /\ (Done => exitCode = NeutralExitCode)
  /\ (EventReadFailed \/ PackageReadFailed) => pc \in {"rejected", "done"}

\* package.json is not JSON: the run ends with exit code 78.
C9_Witness ==
  /\ Done
  /\ PackageReadFailed
  /\ packageFile.kind = "unparseable"
  /\ error = NeutralExitError
  /\ exitCode = NeutralExitCode

-----------------------------------------------------------------------------
(* C10 *)

\* The manifest parsed to null or to an object without a version.
ManifestLacksVersion == packageObj.kind \in {"null", "noVersion"}

\* C10: if the manifest parses but is null or lacks a version, the commit
\* list is never scanned, nothing is spawned, and the exit code is 1.
C10_MissingVersionIsFatal ==
  ManifestLacksVersion =>
    /\ pc \in {"checkVersion", "rejected", "done"}
    /\ ~Contains(trace, "checkCommit")
    /\ decision = "none"
    /\ launched = << >>
    /\ (Done => exitCode = 1)

\* A manifest without a version next to a "Release 1.2.3" commit: exit 1.
C10_Witness ==
  /\ Done
  /\ packageObj.kind = "noVersion"
  /\ Contains(eventObj.commits, [message |-> <<"Release", " ", "1.2.3">>])
  /\ exitCode = 1

-----------------------------------------------------------------------------
(* C11 *)

ExitOne == [type |-> "exit", code |-> 1]
AllZero(from) == \A i \in from..Len(exits) : exits[i] = ExitZero

\* The commands of a run in which the tag is absent and every command succeeds.
FullSequence ==
  <<RevParseCmd(tagName),
    ConfigNameCmd(config.tagAuthor.name),
    ConfigEmailCmd(config.tagAuthor.email),
    TagCmd(tagMessage, tagName),
    PushCmd(tagName),
    YarnPublishCmd(packageObj.version)>>

-----------------------------------------------------------------------------
(* C12 *)

Count(seq, P(_)) == Cardinality({i \in 1..Len(seq) : P(seq[i])})
IsCheckCommit(t) == t = "checkCommit"
\* Two commands are the same external command: same program, same
\* subcommand and, for git config, the same key.
SameCommand(c, d) ==
  /\ c.command = d.command
  /\ c.args[1] = d.args[1]
  /\ c.args[1] = <<"config">> => c.args[2] = d.args[2]

\* C12: the decision is made at most once per run and nothing is retried:
\* no external command is spawned twice, and once the run has ended with the
\* decision approving and the strategy yarn or npm, exactly one publish
\* command has been spawned.
C12_NothingIsRetried ==
  /\ Count(trace, IsCheckCommit) <= 1
  /\ decision # "none" => Count(trace, IsCheckCommit) = 1
  /\ \A i, j \in 1..Len(launched) :
       SameCommand(launched[i], launched[j]) => i = j
  /\ (Ended /\ decision = "release" /\ HasPublishCmd)
     => Count(launched, IsPublishCmd) = 1

\* git tag failed with 128 and npm publish failed with 1: each ran once.
C12_Witness ==
  /\ Done
  /\ decision = "release"
  /\ config.publishWith = <<"npm">>
  /\ Len(launched) = 5
  /\ exits[4] = [type |-> "exit", code |-> 128]
  /\ exits[5] = ExitOne
  /\ Count(launched, IsPublishCmd) = 1

-----------------------------------------------------------------------------
(* C13 *)

\* C13: there is no default-branch check: a run for an event whose ref is not
\* the default branch, with valid inputs and a commit matching the manifest
\* version, still proceeds to tagging and publishing.
C13_NoBranchCheck ==
  (/\ Done
   /\ RefIsOtherBranch
   /\ eventFile.hasOwner
   /\ ~BadTemplateProvided
   /\ packageFile.kind = "object"
   /\ ~NoCommitMatches)
  => (Contains(trace, "createTag") /\ Contains(trace, "publishPackage"))

-----------------------------------------------------------------------------
(* C14 *)

\* The message is a keyword of the pattern, a space, the version itself,
\* and then nothing or a space.
NamesVersion(message, pattern, version) ==
  /\ Len(message) >= 2 + Len(version)
  /\ message[1] \in Prefixes(pattern)
  /\ message[2] = " "
  /\ SubSeq(message, 3, 2 + Len(version)) = version
  /\ Len(message) > 2 + Len(version) => message[3 + Len(version)] = " "

Naming ==
  {i \in 1..Len(eventObj.commits) :
     NamesVersion(eventObj.commits[i].message, config.commitPattern,
                  packageObj.version)}
FirstNaming == CHOOSE i \in Naming : \A j \in Naming : i <= j

\* C14: checkCommit approves exactly when some commit message matches the
\* pattern with the captured group literally the manifest version; it goes
\* through the commits in order and stops at the earliest such commit, so no
\* later commit is examined, and it examines them all when none matches.
C14_ScanStopsAtFirstLiteralMatch ==
  decision # "none" =>
    LET scan == checkCommit(config, eventObj.commits, packageObj.version) IN
    /\ scan.result = (decision = "release")
    /\ scan.result = (Naming # {})
    /\ scan.examined = IF Naming # {} THEN FirstNaming ELSE Len(eventObj.commits)

\* "Release v1.2.3" is passed over for version 1.2.3, "Version 1.2.3" after it
\* is the commit found.
C14_Witness ==
  /\ decision = "release"
  /\ packageObj.version = ManifestVersion
  /\ Len(eventObj.commits) = 2
  /\ eventObj.commits[1].message = <<"Release", " ", "v", "1.2.3">>
  /\ eventObj.commits[2].message = <<"Version", " ", "1.2.3">>
  /\ checkCommit(config, eventObj.commits, packageObj.version).examined = 2

-----------------------------------------------------------------------------
(* C15 *)

IsGit(c, sub) == c.command = "git" /\ c.args[1] = <<sub>>
IsConfig(c, key) == IsGit(c, "config") /\ c.args[2] = <<key>>
IdentitySetupFailed ==
  \E i \in 1..Len(exits) : IsGit(launched[i], "config") /\ exits[i] # ExitZero

\* C15: git push is spawned only right after git tag -a exited 0; git tag only
\* right after git config user.email exited 0, itself spawned right after git
\* config user.name exited 0; git config user.name only right after git
\* rev-parse exited with code 1; and once an identity command has failed,
\* neither git tag nor git push is ever spawned.
C15_TaggingStepsAreGuarded ==
  /\ \A i \in 1..Len(launched) :
       /\ IsGit(launched[i], "push") =>
            (i > 1 /\ IsGit(launched[i - 1], "tag") /\ exits[i - 1] = ExitZero)
       /\ IsGit(launched[i], "tag") =>
            (i > 1 /\ IsConfig(launched[i - 1], "user.email")
                   /\ exits[i - 1] = ExitZero)
       /\ IsConfig(launched[i], "user.email") =>
            (i > 1 /\ IsConfig(launched[i - 1], "user.name")
                   /\ exits[i - 1] = ExitZero)
       /\ IsConfig(launched[i], "user.name") =>
            (i > 1 /\ IsGit(launched[i - 1], "rev-parse")
                   /\ exits[i - 1] = ExitOne)
  /\ IdentitySetupFailed =>
       \A i \in 1..Len(launched) :
         ~IsGit(launched[i], "tag") /\ ~IsGit(launched[i], "push")

\* git config user.email exited 128: the run went on to publish without
\* git tag or git push.
C15_Witness ==
  /\ Done
  /\ Len(launched) = 4
  /\ IsConfig(launched[3], "user.email")
  /\ exits[3] = [type |-> "exit", code |-> 128]
  /\ IsPublishCmd(launched[4])

-----------------------------------------------------------------------------
(* C16 *)

\* C16: the publish strategy is looked at by publishPackage only, after
\* tagging: a run with an unrecognized strategy and a matching commit still
\* goes through createTag, spawns git tag and git push when the tag is absent
\* and the tagging commands succeed, spawns no publish command, and ends
\* with exit code 1.
C16_StrategyIsValidatedAfterTagging ==
  (Ended /\ UnrecognizedStrategy /\ decision = "release") =>
    /\ Contains(trace, "createTag")
    /\ Contains(trace, "publishPackage")
    /\ ~PublishLaunched
    /\ (Len(exits) >= 1 /\ exits[1] = ExitOne /\ AllZero(2)) =>
         (/\ Len(launched) = 5
          /\ launched[4] = TagCmd(tagMessage, tagName)
          /\ launched[5] = PushCmd(tagName))
    /\ Done => exitCode = FailureExitCode

\* PUBLISH_WITH=pnpm: the tag was created and pushed, then the run failed.
C16_Witness ==
  /\ Done
  /\ config.set
  /\ config.publishWith = <<"pnpm">>
  /\ Len(launched) = 5
  /\ IsGit(launched[4], "tag")
  /\ IsGit(launched[5], "push")
  /\ exits[5] = ExitZero
  /\ Contains(trace, "log:Tag created.")
  /\ exitCode = FailureExitCode

-----------------------------------------------------------------------------
(* C17 *)

\* C17: the exit code is 0, 1 or 78; a run ends with 0 only if no commit
\* matched and no subprocess was spawned, or the publish command was spawned
\* and exited 0; after a commit matched, a run whose publish command was not
\* spawned or did not exit 0 does not end with 0.
C17_ExitCodes ==
  /\ exitCode \in {0, FailureExitCode, NeutralExitCode}
  /\ (Done /\ exitCode = 0) =>
       \/ (decision = "noRelease" /\ launched = << >>)
       \/ PublishSucceeded
  /\ (Done /\ decision = "release" /\ ~PublishSucceeded) => exitCode # 0

\* The tag was created and pushed, the publish command could not be spawned:
\* exit code 1.
C17_Witness ==
  /\ Done
  /\ decision = "release"
  /\ Len(launched) = 6
  /\ IsPublishCmd(launched[6])
  /\ exits[6] = [type |-> "error", code |-> -1]
  /\ exitCode = FailureExitCode

====
